---- MODULE Spec2Model ----
(***************************************************************************)
(* Model of docker_stats_tracker.py: one process invocation runs           *)
(* DockerStatsTracker.__init__ (configuration load), then run() (fetch     *)
(* loop, ledger append, optional git publish, aggregate error).            *)
(*                                                                         *)
(* Python values are modelled as follows.  Strings are TLA+ strings and    *)
(* f-strings are concatenation.  None is the string "None" (what str(None) *)
(* gives); no configured name is literally "None".  A local variable that  *)
(* has not been assigned holds Unbound.  The registry is taken to answer   *)
(* with an integer pull_count whenever the request succeeds (section 6 of  *)
(* the specification).                                                     *)
(***************************************************************************)
EXTENDS Integers, Sequences, FiniteSets, TLC

\* Bounds of the model.
MaxProjects == 2      \* longest DOCKER_PROJECTS list
MaxDay == 1           \* the clock runs over days 0..MaxDay
MaxRuns == 2          \* invocations in a sequence of runs (SpecRuns)

None == "None"
Unbound == "<unbound>"

Truthy(v) == v # None /\ v # ""

\* ---------------------------------------------------------------------
\* Configuration entries (elements of the parsed JSON array).  obj says
\* whether the element is a JSON object; repr is Python's str() of it.
\* ---------------------------------------------------------------------
GoodApp == [obj |-> TRUE, username |-> "acme", repository |-> "app",
            repr |-> "{'username': 'acme', 'repository': 'app'}"]
GoodDb == [obj |-> TRUE, username |-> "acme", repository |-> "db",
           repr |-> "{'username': 'acme', 'repository': 'db'}"]
NoUser == [obj |-> TRUE, username |-> None, repository |-> "app",
           repr |-> "{'repository': 'app'}"]
EmptyRepo == [obj |-> TRUE, username |-> "acme", repository |-> "",
              repr |-> "{'username': 'acme', 'repository': ''}"]
NonObject == [obj |-> FALSE, username |-> None, repository |-> None,
              repr |-> "acme/app"]

Entries == {GoodApp, GoodDb, NoUser, EmptyRepo, NonObject}

SeqsUpTo(S, n) == UNION {[1..k -> S] : k \in 0..n}

\* Values of the DOCKER_PROJECTS environment variable, by what json.loads
\* makes of them: unset, "", text that is not JSON, JSON that is falsy and
\* not an array (null, 0, false, "", {}), a non-zero JSON number, or an
\* array.
EnvValue(kind, items) == [kind |-> kind, items |-> items]
EnvAbsent == EnvValue("absent", <<>>)
EnvEmpty == EnvValue("empty", <<>>)
EnvMalformed == EnvValue("malformed", <<>>)
EnvFalsy == EnvValue("falsy", <<>>)
EnvNumber == EnvValue("number", <<>>)
EnvLists == {EnvValue("list", s) : s \in SeqsUpTo(Entries, MaxProjects)}
EnvValues == {EnvAbsent, EnvEmpty, EnvMalformed, EnvFalsy, EnvNumber} \cup EnvLists

\* ---------------------------------------------------------------------
\* Pure parts of the program
\* ---------------------------------------------------------------------
Raised(exc, msg) == [kind |-> "raised", exc |-> exc, msg |-> msg]
NoOutcome == [kind |-> "none", exc |-> "", msg |-> ""]
Success == [kind |-> "success", exc |-> "", msg |-> ""]

\* bool(projects) of the parsed JSON value
ProjectsTruthy(v) == \/ v.kind = "number"
                     \/ v.kind = "list" /\ v.items # <<>>

\* _load_projects without the "if not projects" test of line 41
_load_projects_unchecked(v) ==
    IF v.kind \in {"absent", "empty"}
    THEN Raised("ValueError", "DOCKER_PROJECTS environment variable is not set")
    ELSE IF v.kind = "malformed"
    THEN Raised("ValueError",
                "Invalid JSON in DOCKER_PROJECTS: Expecting value: line 1 column 1 (char 0)")
    ELSE NoOutcome

\* _load_projects: the exception it raises, or NoOutcome when it returns
_load_projects(v) ==
    IF v.kind \in {"absent", "empty"}
    THEN Raised("ValueError", "DOCKER_PROJECTS environment variable is not set")
    ELSE IF v.kind = "malformed"
    THEN Raised("ValueError",
                "Invalid JSON in DOCKER_PROJECTS: Expecting value: line 1 column 1 (char 0)")
    ELSE IF ~ProjectsTruthy(v)
    THEN Raised("ValueError", "No projects defined in DOCKER_PROJECTS")
    ELSE NoOutcome

\* datetime.now().strftime("%Y-%m-%d") when the clock shows day d
strftime(d) == IF d + 1 < 10 THEN "2024-01-0" \o ToString(d + 1)
               ELSE "2024-01-" \o ToString(d + 1)

\* f"{username}/{repository}"
RepoId(u, r) == u \o "/" \o r

\* the URL built by get_docker_downloads
Url(u, r) == "https://hub.docker.com/v2/repositories/" \o u \o "/" \o r \o "/"

\* what a GET can do: return a body with an integer pull_count, or fail
Counts == {0, 42}
FetchErrors == {"404 Client Error: Not Found", "'pull_count'"}
FetchResults == {[ok |-> TRUE, pull_count |-> c, err |-> ""] : c \in Counts}
                \cup {[ok |-> FALSE, pull_count |-> 0, err |-> e] : e \in FetchErrors}

\* error_msg that leaves the repository out
ErrorMsgUnnamed(u, r, e) == "Error processing repository: " \o e

\* error_msg of run()'s except clause
ErrorMsg(u, r, e) == "Error processing " \o u \o "/" \o r \o ": " \o e

AttributeErrorText == "'str' object has no attribute 'get'"
UnboundLocalErrorText ==
    "cannot access local variable 'username' where it is not associated with a value"
TypeErrorText == "'int' object is not iterable"
OSErrorText == "[Errno 2] No such file or directory: 'git'"

\* "\n".join(errors)
RECURSIVE Join(_)
Join(msgs) == IF msgs = <<>> THEN ""
              ELSE IF Len(msgs) = 1 THEN msgs[1]
              ELSE msgs[1] \o "\n" \o Join(Tail(msgs))

\* ---------------------------------------------------------------------
\* The ledger file
\* ---------------------------------------------------------------------
Header == <<"Date", "Repository", "Downloads">>
NoFile == [exists |-> FALSE, lines |-> <<>>]

\* a csv row with the two name fields exchanged
CsvRowSwapped(d, repo_data) ==
    <<d, RepoId(repo_data.repository, repo_data.username), ToString(repo_data.downloads)>>

\* one csv row of store_data
CsvRow(d, repo_data) ==
    <<d, RepoId(repo_data.username, repo_data.repository), ToString(repo_data.downloads)>>

\* store_data opening the file with mode 'w' for the rows as well
store_data_rewrite(file, d, data) ==
    [exists |-> TRUE,
     lines |-> <<Header>> \o [i \in 1..Len(data) |-> CsvRow(d, data[i])]]

\* store_data: the file after the call
store_data(file, d, data) ==
    LET created == IF file.exists THEN file
                   ELSE [exists |-> TRUE, lines |-> <<Header>>]
    IN [exists |-> TRUE,
        lines |-> created.lines \o [i \in 1..Len(data) |-> CsvRow(d, data[i])]]

\* A ledger left by an earlier run.
PriorLedger == [exists |-> TRUE,
                lines |-> <<Header, <<strftime(0), "acme/app", "41">> >>]

\* ---------------------------------------------------------------------
\* State
\* ---------------------------------------------------------------------
VARIABLES
    DOCKER_PROJECTS,   \* os.getenv('DOCKER_PROJECTS')
    GITHUB_ACTIONS,    \* bool(os.getenv('GITHUB_ACTIONS'))
    clock,             \* the day datetime.now() falls on
    pc,                \* position of the process
    projects,          \* self.projects
    stats_dir,         \* the directory stats/ exists
    csv_file,          \* stats/docker_downloads.csv
    date,              \* run(): date
    downloads_data,    \* run(): downloads_data
    errors,            \* run(): errors
    idx,               \* run(): position of the for loop (1-based)
    username,          \* run(): username
    repository,        \* run(): repository
    git_step,          \* subprocess.run calls of commit_and_push_changes done
    git_failed,        \* some git command exited non-zero
    commit_msg,        \* the -m argument given to git commit, "" if none
    publish,           \* commit_and_push_changes: "no", "running", "returned", "raised"
    outcome,           \* how the process ended
    requests,          \* URLs requested, in order
    trace,             \* what happened to each entry the loop took up
    stored,            \* store_data was called
    csv_at_start,      \* the ledger when the process started
    start_day,         \* the day run() started on
    runs               \* invocations so far

vars == <<DOCKER_PROJECTS, GITHUB_ACTIONS, clock, pc, projects, stats_dir, csv_file,
          date, downloads_data, errors, idx, username, repository, git_step,
          git_failed, commit_msg, publish, outcome, requests, trace, stored,
          csv_at_start, start_day, runs>>

env == <<DOCKER_PROJECTS, GITHUB_ACTIONS>>
locals == <<date, downloads_data, errors, idx, username, repository>>
git == <<git_step, git_failed, commit_msg, publish>>
ghost == <<csv_at_start, start_day, runs>>

\* The state of a process that has just been started.
Fresh ==
    /\ pc = "main"
    /\ projects = EnvAbsent
    /\ date = ""
    /\ downloads_data = <<>>
    /\ errors = <<>>
    /\ idx = 0
    /\ username = Unbound
    /\ repository = Unbound
    /\ git_step = 0
    /\ git_failed = FALSE
    /\ commit_msg = ""
    /\ publish = "no"
    /\ outcome = NoOutcome
    /\ requests = <<>>
    /\ trace = <<>>
    /\ stored = FALSE
    /\ start_day = 0

Init ==
    /\ DOCKER_PROJECTS \in EnvValues
    /\ GITHUB_ACTIONS \in BOOLEAN
    /\ clock = 0
    /\ csv_file \in {NoFile, PriorLedger}
    /\ stats_dir = csv_file.exists
    /\ csv_at_start = csv_file
    /\ runs = 1
    /\ Fresh

\* ---------------------------------------------------------------------
\* Actions
\* ---------------------------------------------------------------------

\* What the loop did with entry i: ev is "fetch_ok", "fetch_fail", "invalid"
\* (the ValueError of line 117), "nonobject" (project.get failed) or "abort"
\* (the except clause itself raised); user and repo are the names that went
\* into the error message, has_repr says the message quotes the entry.
Event(i, ev, res, msg, u, r, q) ==
    [i |-> i, ev |-> ev, pull_count |-> res.pull_count, err |-> res.err,
     msg |-> msg, user |-> u, repo |-> r, has_repr |-> q]
NoResult == [ok |-> FALSE, pull_count |-> 0, err |-> ""]

\* __init__ when _load_projects raises: the exception reaches __main__
InitConfigError ==
    /\ pc = "main"
    /\ _load_projects(DOCKER_PROJECTS).kind = "raised"
    /\ outcome' = _load_projects(DOCKER_PROJECTS)
    /\ pc' = "exit"
    /\ UNCHANGED <<env, clock, projects, stats_dir, csv_file, locals, git,
                   requests, trace, stored, ghost>>

\* __init__ when _load_projects returns: stats/ is made, run() is next
InitLoaded ==
    /\ pc = "main"
    /\ _load_projects(DOCKER_PROJECTS).kind # "raised"
    /\ projects' = DOCKER_PROJECTS
    /\ stats_dir' = TRUE
    /\ pc' = "run"
    /\ UNCHANGED <<env, clock, csv_file, locals, git, outcome, requests, trace,
                   stored, ghost>>

\* run(), lines 106-111: take the date, start the loop.  Iterating over a
\* JSON number raises TypeError out of run().
RunStart ==
    /\ pc = "run"
    /\ date' = strftime(clock)
    /\ start_day' = clock
    /\ downloads_data' = <<>>
    /\ errors' = <<>>
    /\ IF projects.kind = "list"
       THEN /\ pc' = "loop"
            /\ idx' = 1
            /\ UNCHANGED outcome
       ELSE /\ pc' = "exit"
            /\ outcome' = Raised("TypeError", TypeErrorText)
            /\ UNCHANGED idx
    /\ UNCHANGED <<env, clock, projects, stats_dir, csv_file, username, repository,
                   git, requests, trace, stored, csv_at_start, runs>>

AtEntry == pc = "loop" /\ idx \in 1..Len(projects.items)
project == projects.items[idx]

\* the for statement moves on (continue, or the end of the body)
NextEntry ==
    /\ idx' = idx + 1
    /\ pc' = IF idx = Len(projects.items) THEN "store" ELSE "loop"

\* project.get raises AttributeError (line 113), so username and repository
\* keep what they held; the except clause formats them into error_msg, and
\* reading an unassigned local there raises UnboundLocalError out of run().
ProcessNonObject ==
    /\ AtEntry
    /\ ~project.obj
    /\ IF username = Unbound
       THEN /\ pc' = "exit"
            /\ outcome' = Raised("UnboundLocalError", UnboundLocalErrorText)
            /\ trace' = Append(trace, Event(idx, "abort", NoResult, "", Unbound, Unbound, FALSE))
            /\ UNCHANGED <<errors, idx>>
       ELSE /\ errors' = Append(errors, ErrorMsg(username, repository, AttributeErrorText))
            /\ trace' = Append(trace, Event(idx, "nonobject", NoResult,
                                            ErrorMsg(username, repository, AttributeErrorText),
                                            username, repository, FALSE))
            /\ NextEntry
            /\ UNCHANGED outcome
    /\ UNCHANGED <<env, clock, projects, stats_dir, csv_file, date, downloads_data,
                   username, repository, git, requests, stored, ghost>>

\* lines 113-117: a field is missing or empty, ValueError naming the entry
ProcessInvalid ==
    /\ AtEntry
    /\ project.obj
    /\ ~Truthy(project.username) \/ ~Truthy(project.repository)
    /\ username' = project.username
    /\ repository' = project.repository
    /\ LET msg == ErrorMsg(project.username, project.repository,
                           "Invalid project configuration: " \o project.repr)
       IN /\ errors' = Append(errors, msg)
          /\ trace' = Append(trace, Event(idx, "invalid", NoResult, msg,
                                          project.username, project.repository, TRUE))
    /\ NextEntry
    /\ UNCHANGED <<env, clock, projects, stats_dir, csv_file, date, downloads_data,
                   git, outcome, requests, stored, ghost>>

WellFormed(p) == p.obj /\ Truthy(p.username) /\ Truthy(p.repository)

\* lines 119-130: get_docker_downloads returns the pull count
ProcessFetched ==
    /\ AtEntry
    /\ WellFormed(project)
    /\ \E res \in FetchResults :
        /\ res.ok
        /\ downloads_data' = Append(downloads_data,
                                    [username |-> project.username,
                                     repository |-> project.repository,
                                     downloads |-> res.pull_count])
        /\ trace' = Append(trace, Event(idx, "fetch_ok", res, "",
                                        project.username, project.repository, FALSE))
    /\ username' = project.username
    /\ repository' = project.repository
    /\ requests' = Append(requests, Url(project.username, project.repository))
    /\ NextEntry
    /\ UNCHANGED <<env, clock, projects, stats_dir, csv_file, date, errors, git,
                   outcome, stored, ghost>>

\* lines 119-120, 132-136: get_docker_downloads raises
ProcessFetchFailed ==
    /\ AtEntry
    /\ WellFormed(project)
    /\ \E res \in FetchResults :
        /\ ~res.ok
        /\ LET msg == ErrorMsg(project.username, project.repository, res.err)
           IN /\ errors' = Append(errors, msg)
              /\ trace' = Append(trace, Event(idx, "fetch_fail", res, msg,
                                              project.username, project.repository, FALSE))
    /\ username' = project.username
    /\ repository' = project.repository
    /\ requests' = Append(requests, Url(project.username, project.repository))
    /\ NextEntry
    /\ UNCHANGED <<env, clock, projects, stats_dir, csv_file, date, downloads_data,
                   git, outcome, stored, ghost>>

\* a test that lets an empty batch through
HaveDownloadsAlways(data) == TRUE

\* line 139: "if downloads_data"
HaveDownloads(data) == data # <<>>

\* lines 139-143: downloads_data is not empty, the ledger is written
StoreData ==
    /\ pc = "store"
    /\ HaveDownloads(downloads_data)
    /\ csv_file' = store_data(csv_file, date, downloads_data)
    /\ stored' = TRUE
    /\ IF GITHUB_ACTIONS
       THEN pc' = "publish" /\ publish' = "running"
       ELSE pc' = "finish" /\ UNCHANGED publish
    /\ UNCHANGED <<env, clock, projects, stats_dir, locals, git_step, git_failed,
                   commit_msg, outcome, requests, trace, ghost>>

\* line 139: nothing was fetched
SkipStore ==
    /\ pc = "store"
    /\ ~HaveDownloads(downloads_data)
    /\ pc' = "finish"
    /\ UNCHANGED <<env, clock, projects, stats_dir, csv_file, locals, git, outcome,
                   requests, trace, stored, ghost>>

\* commit_and_push_changes: the git commands, in order
GitCalls == <<"config user.name", "config user.email", "add", "commit", "push">>

\* the -m argument of line 94
CommitMessage(d) == "Update download stats for " \o strftime(d)

\* one subprocess.run returns; its exit status is not looked at.  After the
\* last one, success is logged and the method returns.
GitCall ==
    /\ pc = "publish"
    /\ git_step < Len(GitCalls)
    /\ \E rc \in {0, 1} : git_failed' = (git_failed \/ rc # 0)
    /\ git_step' = git_step + 1
    /\ commit_msg' = IF GitCalls[git_step + 1] = "commit" THEN CommitMessage(clock)
                     ELSE commit_msg
    /\ IF git_step + 1 = Len(GitCalls)
       THEN publish' = "returned" /\ pc' = "finish"
       ELSE UNCHANGED <<publish, pc>>
    /\ UNCHANGED <<env, clock, projects, stats_dir, csv_file, locals, outcome,
                   requests, trace, stored, ghost>>

\* one subprocess.run raises (git cannot be started): lines 100-102 log and
\* re-raise, lines 146-147 record the error
GitRaise ==
    /\ pc = "publish"
    /\ git_step < Len(GitCalls)
    /\ publish' = "raised"
    /\ errors' = Append(errors, "Failed to commit changes: " \o OSErrorText)
    /\ pc' = "finish"
    /\ UNCHANGED <<env, clock, projects, stats_dir, csv_file, date, downloads_data,
                   idx, username, repository, git_step, git_failed, commit_msg,
                   outcome, requests, trace, stored, ghost>>

\* lines 150-153, and __main__'s except clause
Finish ==
    /\ pc = "finish"
    /\ outcome' = IF errors # <<>> THEN Raised("Exception", Join(errors)) ELSE Success
    /\ pc' = "exit"
    /\ UNCHANGED <<env, clock, projects, stats_dir, csv_file, locals, git,
                   requests, trace, stored, ghost>>

\* midnight passes
Tick ==
    /\ clock < MaxDay
    /\ clock' = clock + 1
    /\ UNCHANGED <<env, pc, projects, stats_dir, csv_file, locals, git, outcome,
                   requests, trace, stored, ghost>>

Next ==
    \/ InitConfigError
    \/ InitLoaded
    \/ RunStart
    \/ ProcessNonObject
    \/ ProcessInvalid
    \/ ProcessFetched
    \/ ProcessFetchFailed
    \/ StoreData
    \/ SkipStore
    \/ GitCall
    \/ GitRaise
    \/ Finish
    \/ Tick

Spec == Init /\ [][Next]_vars

\* ---------------------------------------------------------------------
\* A sequence of non-overlapping invocations: the next process starts
\* after the previous one has exited, in the same environment, and finds
\* the ledger as it was left.
\* ---------------------------------------------------------------------
NextInvocation ==
    /\ pc = "exit"
    /\ runs < MaxRuns
    /\ runs' = runs + 1
    /\ csv_at_start' = csv_file
    /\ pc' = "main"
    /\ projects' = EnvAbsent
    /\ date' = ""
    /\ downloads_data' = <<>>
    /\ errors' = <<>>
    /\ idx' = 0
    /\ username' = Unbound
    /\ repository' = Unbound
    /\ git_step' = 0
    /\ git_failed' = FALSE
    /\ commit_msg' = ""
    /\ publish' = "no"
    /\ outcome' = NoOutcome
    /\ requests' = <<>>
    /\ trace' = <<>>
    /\ stored' = FALSE
    /\ start_day' = 0
    /\ UNCHANGED <<env, clock, stats_dir, csv_file>>

\* The environments of the scheduled job: one without configuration and
\* three project lists that between them take every path through run().
RunsEnvValues == {EnvAbsent,
                  EnvValue("list", <<GoodApp, GoodDb>>),
                  EnvValue("list", <<GoodApp, NonObject>>),
                  EnvValue("list", <<NoUser, GoodDb>>)}

InitRuns ==
    /\ DOCKER_PROJECTS \in RunsEnvValues
    /\ GITHUB_ACTIONS \in BOOLEAN
    /\ clock = 0
    /\ csv_file = NoFile
    /\ stats_dir = FALSE
    /\ csv_at_start = csv_file
    /\ runs = 1
    /\ Fresh

NextRuns == Next \/ NextInvocation

SpecRuns == InitRuns /\ [][NextRuns]_vars

\* ---------------------------------------------------------------------
\* Properties
\* ---------------------------------------------------------------------
Cfg == DOCKER_PROJECTS.items
N == Len(Cfg)
AcceptedList == DOCKER_PROJECTS.kind = "list" /\ Cfg # <<>>
AllWellFormed == \A i \in 1..N : WellFormed(Cfg[i])
Exited == pc = "exit"

EventsOf(ev) == {i \in 1..Len(trace) : trace[i].ev = ev}

IsPrefix(s, t) == Len(s) <= Len(t) /\ \A i \in 1..Len(s) : s[i] = t[i]

\* the lines the file gained over old, a header it was created with aside
Gained(old, new) ==
    IF old.exists THEN SubSeq(new.lines, Len(old.lines) + 1, Len(new.lines))
    ELSE IF new.exists THEN Tail(new.lines)
    ELSE <<>>

\* the file is old with lines added at the end (after a header, if new)
Extends(old, new) ==
    IF old.exists THEN new.exists /\ IsPrefix(old.lines, new.lines)
    ELSE new.exists => new.lines[1] = Header

NewRows == Gained(csv_at_start, csv_file)

\* the row the ledger is to hold for entry i of the configuration
ExpectedRow(i) ==
    <<strftime(start_day), Cfg[i].username \o "/" \o Cfg[i].repository,
      ToString(trace[i].pull_count)>>

\* the message run() is to record when the fetch for entry i fails
ExpectedFetchError(i) ==
    "Error processing " \o Cfg[i].username \o "/" \o Cfg[i].repository
        \o ": " \o trace[i].err

PublishErrorMsg == "Failed to commit changes: " \o OSErrorText

RunRaisedAggregate == outcome.kind = "raised" /\ outcome.exc = "Exception"

\* C1: for every list the loader accepted, every entry is attempted exactly
\* once and in order, whatever fails on the way, and an error leaves run()
\* only as the aggregate raised after the last entry.
C1_EveryEntryAttempted ==
    (Exited /\ AcceptedList) =>
        /\ Len(trace) = N
        /\ \A i \in 1..N : trace[i].i = i /\ trace[i].ev # "abort"
        /\ outcome.kind = "raised" => outcome.exc = "Exception"

\* C2: when all N entries are well formed and all N fetches succeed, the
\* ledger gains exactly N rows, the i-th for the i-th entry as
\* namespace/name with its fetched count, each dated with the day the run
\* started on.
C2_AllFetchedRowsAppended ==
    (Exited /\ AcceptedList /\ AllWellFormed /\ EventsOf("fetch_fail") = {}) =>
        /\ Len(trace) = N
        /\ Extends(csv_at_start, csv_file)
        /\ NewRows = [i \in 1..N |-> ExpectedRow(i)]

C2_Witness ==
    /\ Exited /\ AcceptedList /\ AllWellFormed
    /\ N >= 2 /\ Cfg[1] # Cfg[2]
    /\ Len(trace) = N /\ EventsOf("fetch_fail") = {}
    /\ trace[1].pull_count # trace[2].pull_count
    /\ clock # start_day
    /\ stored

\* C3: when exactly one of the N fetches fails, the ledger gains rows for
\* the other N-1 entries only, in configuration order, and run() raises the
\* aggregate error, whose message names the repository that failed.
C3_OneFailureIsolated ==
    (Exited /\ AcceptedList /\ AllWellFormed /\ Cardinality(EventsOf("fetch_fail")) = 1) =>
        LET j == CHOOSE i \in EventsOf("fetch_fail") : TRUE
            kept == [k \in 1..(N - 1) |-> IF k < j THEN k ELSE k + 1]
        IN /\ Len(trace) = N
           /\ Extends(csv_at_start, csv_file)
           /\ NewRows = [k \in 1..(N - 1) |-> ExpectedRow(kept[k])]
           /\ RunRaisedAggregate
           /\ outcome.msg \in {ExpectedFetchError(j),
                               ExpectedFetchError(j) \o "\n" \o PublishErrorMsg}

C3_Witness ==
    /\ Exited /\ AcceptedList /\ AllWellFormed
    /\ N >= 2
    /\ EventsOf("fetch_fail") = {1}
    /\ EventsOf("fetch_ok") = 2..N
    /\ stored
    /\ RunRaisedAggregate

\* newline-joined messages m[1..k]
RECURSIVE Lines(_, _)
Lines(m, k) == IF k = 0 THEN ""
               ELSE IF k = 1 THEN m[1]
               ELSE Lines(m, k - 1) \o "\n" \o m[k]

\* C4: when all N fetches fail, store_data is not called, the ledger file
\* is neither created nor changed, publish is not attempted, and run()
\* raises the aggregate error made of exactly the N messages, one per
\* entry, joined by newlines.
C4_AllFailedNoWrite ==
    (Exited /\ AcceptedList /\ AllWellFormed /\ EventsOf("fetch_ok") = {}) =>
        /\ Len(trace) = N
        /\ ~stored
        /\ csv_file = csv_at_start
        /\ publish = "no" /\ git_step = 0 /\ commit_msg = ""
        /\ Len(errors) = N
        /\ RunRaisedAggregate
        /\ outcome.msg = Lines([i \in 1..N |-> ExpectedFetchError(i)], N)

C4_Witness ==
    /\ Exited /\ AcceptedList /\ AllWellFormed
    /\ N >= 2
    /\ EventsOf("fetch_fail") = 1..N
    /\ GITHUB_ACTIONS
    /\ RunRaisedAggregate

\* the configuration cannot be loaded: unset or empty, not JSON, or JSON
\* that holds no entries
LoadFails ==
    \/ DOCKER_PROJECTS.kind \in {"absent", "empty", "malformed", "falsy"}
    \/ DOCKER_PROJECTS.kind = "list" /\ Cfg = <<>>

\* C5: when the configuration cannot be loaded the process ends in the
\* loader's error before run() starts: no request is made, the ledger is
\* not written and publish is not attempted.
C5_ConfigErrorBeforeAnyWork ==
    LoadFails =>
        /\ pc \in {"main", "exit"}
        /\ Exited => outcome.kind = "raised" /\ outcome.exc = "ValueError"
        /\ requests = <<>>
        /\ trace = <<>>
        /\ ~stored /\ csv_file = csv_at_start
        /\ publish = "no" /\ git_step = 0 /\ commit_msg = ""

C5_Witness ==
    /\ Exited
    /\ DOCKER_PROJECTS.kind = "list" /\ Cfg = <<>>
    /\ GITHUB_ACTIONS
    /\ outcome.kind = "raised"

\* publish did not do its work: a git command failed, or could not be run
PublishFailed == git_failed \/ publish = "raised"

\* C6: publish is attempted exactly when GITHUB_ACTIONS is set and the run
\* wrote rows, and only after the write; when publish fails the rows stay
\* and the aggregate error raised at the end holds the publish failure.
C6_PublishGatedAndFailureRecorded ==
    Exited =>
        /\ (publish # "no") <=> (GITHUB_ACTIONS /\ NewRows # <<>>)
        /\ (publish # "no") => stored
        /\ PublishFailed =>
            /\ Extends(csv_at_start, csv_file) /\ NewRows # <<>>
            /\ RunRaisedAggregate
            /\ \E i \in 1..Len(errors) : errors[i] = PublishErrorMsg

HeaderOnce(file) ==
    file.exists => /\ file.lines # <<>>
                   /\ file.lines[1] = Header
                   /\ \A i \in 2..Len(file.lines) : file.lines[i] # Header

\* C7: over a sequence of runs the ledger only grows at its end: every
\* step leaves the earlier content as a prefix of the file, the header is
\* the first line of the file that was created and occurs nowhere else.
C7_LedgerAppendOnly ==
    [][/\ csv_file.exists => csv_file'.exists
       /\ IsPrefix(csv_file.lines, csv_file'.lines)
       /\ HeaderOnce(csv_file')]_vars

C7_Witness ==
    /\ runs >= 2
    /\ stored
    /\ csv_at_start.exists
    /\ Len(csv_at_start.lines) >= 2
    /\ Len(csv_file.lines) > Len(csv_at_start.lines)

\* C8: a git step that fails makes commit_and_push_changes raise, so that
\* success is not reported and run() records the publish error in the
\* aggregate it raises.
C8_GitStepFailureSurfaced ==
    (Exited /\ git_failed) =>
        /\ publish = "raised"
        /\ RunRaisedAggregate
        /\ errors # <<>> /\ errors[Len(errors)] = PublishErrorMsg

\* C9: the date in the commit message is the date on the rows the run
\* wrote, however much time passes before the commit.
C9_CommitDateIsRowDate ==
    (commit_msg # "" /\ NewRows # <<>>) =>
        \A i \in 1..Len(NewRows) :
            commit_msg = "Update download stats for " \o NewRows[i][1]

\* the message recorded for an entry tells which entry it was
Identifies(e, p) ==
    \/ e.has_repr
    \/ p.obj /\ e.user = p.username /\ e.repo = p.repository

\* C10: an entry of an accepted list that is not a well-formed repository
\* costs one error message that identifies it and nothing else: no
\* request, no row, and every other entry is still processed, wherever in
\* the list the entry stands.
C10_IllFormedEntryIsolated ==
    (Exited /\ AcceptedList) =>
        \A i \in 1..N : ~WellFormed(Cfg[i]) =>
            /\ Len(trace) = N
            /\ trace[i].ev \in {"invalid", "nonobject"}
            /\ trace[i].msg # "" /\ Identifies(trace[i], Cfg[i])
            /\ Len(requests) = Cardinality({k \in 1..N : WellFormed(Cfg[k])})
            /\ Len(NewRows) = Cardinality(EventsOf("fetch_ok"))

====
